---- MODULE Spec2Model ----
(***************************************************************************)
(* NetworkHub (packages/smoke-node/src/hub/network/client.ts): a client of *)
(* the smoke signalling protocol.  The client owns a Barrier (the gate), a *)
(* Deferred (the correlation table), the current Binding and a request_id  *)
(* counter; it reacts to the socket's message, error and close events.     *)
(* Barrier and Deferred live in ../../async, outside the sources at hand;  *)
(* they are modelled from their contract in spec.md sections 4.1 and 4.2.  *)
(***************************************************************************)
EXTENDS Integers, Sequences, FiniteSets, TLC

\* ---------------------------------------------------------------- bounds
MaxCalls    == 2   \* public operations invoked on one instance
MaxEmitted  == 1   \* events emitted to subscribers

\* ---------------------------------------------------------------- inputs
Hostnames  == {"alice"}
Addresses  == {"peer-42", "peer-7"}
Reasons    == {"not-found"}
Quotas     == {5}

\* JavaScript values a promise settles with
Undefined   == [kind |-> "undefined"]
Str(s)      == [kind |-> "string", string |-> s]
Obj(m)      == [kind |-> "object", object |-> m]
TypeError   == [kind |-> "TypeError"]
KeyError    == [kind |-> "Error"]

\* wire messages (spec.md section 6, the types imported from '../hub')
Binding(a)         == [type |-> "binding", address |-> a, configuration |-> "rtc"]
Forward(t, f, d)   == [type |-> "forward", to |-> t, from |-> f, data |-> d]
Register(k, h)     == [type |-> "register", request_id |-> k, hostname |-> h]
Lookup(k, h)       == [type |-> "lookup", request_id |-> k, hostname |-> h]
RegisterOk(k, q)   == [type |-> "register-ok", request_id |-> k, quota |-> q]
RegisterFail(k, r) == [type |-> "register-fail", request_id |-> k, reason |-> r]
LookupOk(k, q)     == [type |-> "lookup-ok", request_id |-> k, quota |-> q]
LookupFail(k, r)   == [type |-> "lookup-fail", request_id |-> k, reason |-> r]

RequestIds == 0 .. (MaxCalls - 1)

\* frames the hub may deliver; the last two groups are the frames the switch
\* of onMessage has no case for, and the frame JSON.parse cannot decode
Malformed == [type |-> "#malformed"]
Unrecognized ==
  { Register(0, "alice"), [type |-> "ping"] }
Responses ==
    { RegisterOk(k, q)   : k \in RequestIds, q \in Quotas }
  \cup { RegisterFail(k, r) : k \in RequestIds, r \in Reasons }
  \cup { LookupOk(k, q)     : k \in RequestIds, q \in Quotas }
  \cup { LookupFail(k, r)   : k \in RequestIds, r \in Reasons }
Inbound ==
    { Binding(a) : a \in Addresses }
  \cup { Forward("peer-42", "peer-7", "hello") }
  \cup Responses \cup Unrecognized \cup { Malformed }

\* ----------------------------------------------------------------- state
VARIABLES
  paused,      \* Barrier: the gate is closed
  awaiters,    \* Barrier: queued continuations (call numbers), FIFO
  deferred,    \* Deferred: request_id -> call number awaiting it
  binding,     \* NetworkHub.binding
  request_id,  \* NetworkHub.request_id
  socket,      \* frames handed to socket.send, in order
  calls,       \* every public call made: what it was and how it stands
  emitted,     \* events raised through Events.emit, in order
  last         \* the event handled most recently

vars == << paused, awaiters, deferred, binding, request_id, socket, calls,
           emitted, last >>

NoBinding == [type |-> "undefined"]
NoId      == -1
Empty     == << >>

\* the part of the state a continuation run by the Barrier reads and writes
Hub == [ request_id |-> request_id, deferred |-> deferred,
         socket |-> socket, calls |-> calls ]

\* ------------------------------------------------- Deferred (spec.md 4.2)
Has(d, k)     == \E e \in d : e.key = k
AwaiterOf(d, k) == (CHOOSE e \in d : e.key = k).awaiter

Settle(cs, c, status, v) ==
  [cs EXCEPT ![c].status = status, ![c].value = v]

\* wait(identifier): registers a slot; fails the caller if already registered
DeferredWait(st, k, c) ==
  IF Has(st.deferred, k)
  THEN [st EXCEPT !.calls = Settle(st.calls, c, "rejected", KeyError)]
  ELSE [st EXCEPT !.deferred = st.deferred \cup {[key |-> k, awaiter |-> c]},
                  !.calls = [st.calls EXCEPT ![c].status = "waiting"]]

\* variant: resolve completes the slot but leaves it in the table
DeferredResolve_KeepsSlot(st, k, v) ==
  IF Has(st.deferred, k)
  THEN [st EXCEPT !.calls = Settle(st.calls, AwaiterOf(st.deferred, k),
                                   "resolved", v)]
  ELSE st

\* resolve(identifier, payload): completes and removes the slot, else no-op
DeferredResolve(st, k, v) ==
  IF Has(st.deferred, k)
  THEN [st EXCEPT !.deferred = { e \in st.deferred : e.key # k },
                  !.calls = Settle(st.calls, AwaiterOf(st.deferred, k),
                                   "resolved", v)]
  ELSE st

\* reject(identifier, reason): same, completing with the reason
DeferredReject(st, k, r) ==
  IF Has(st.deferred, k)
  THEN [st EXCEPT !.deferred = { e \in st.deferred : e.key # k },
                  !.calls = Settle(st.calls, AwaiterOf(st.deferred, k),
                                   "rejected", r)]
  ELSE st

\* ------------------------------------- the continuations handed to the gate
SocketSend(st, c, frame) ==
  [st EXCEPT !.socket = Append(st.socket, frame),
             !.calls  = [st.calls EXCEPT ![c].sends = @ + 1]]

\* () => this.binding!.configuration
ConfigurationFn(st, c, b) ==
  IF b = NoBinding
  THEN [st EXCEPT !.calls = Settle(st.calls, c, "rejected", TypeError)]
  ELSE [st EXCEPT !.calls = Settle(st.calls, c, "resolved", Str(b.configuration))]

\* () => this.binding!.address
AddressFn(st, c, b) ==
  IF b = NoBinding
  THEN [st EXCEPT !.calls = Settle(st.calls, c, "rejected", TypeError)]
  ELSE [st EXCEPT !.calls = Settle(st.calls, c, "resolved", Str(b.address))]

\* variant: register reads the counter without advancing it
RegisterFn_NoIncrement(st, c, b) ==
  LET k  == st.request_id
      s1 == [st EXCEPT !.calls = [st.calls EXCEPT ![c].request_id = k]]
      s2 == SocketSend(s1, c, Register(k, st.calls[c].args.hostname))
  IN  DeferredWait(s2, k, c)

\* request_id = this.request_id++ ; socket.send(register) ; deferred.wait
RegisterFn(st, c, b) ==
  LET k  == st.request_id
      s1 == [st EXCEPT !.request_id = k + 1,
                       !.calls = [st.calls EXCEPT ![c].request_id = k]]
      s2 == SocketSend(s1, c, Register(k, st.calls[c].args.hostname))
  IN  DeferredWait(s2, k, c)

\* request_id = this.request_id++ ; socket.send(lookup) ; deferred.wait
LookupFn(st, c, b) ==
  LET k  == st.request_id
      s1 == [st EXCEPT !.request_id = k + 1,
                       !.calls = [st.calls EXCEPT ![c].request_id = k]]
      s2 == SocketSend(s1, c, Lookup(k, st.calls[c].args.hostname))
  IN  DeferredWait(s2, k, c)

\* variant: forward takes an identifier from the counter like a request
ForwardFn_AllocatesId(st, c, b) ==
  IF b = NoBinding
  THEN [st EXCEPT !.calls = Settle(st.calls, c, "rejected", TypeError)]
  ELSE LET a  == st.calls[c].args
           s0 == [st EXCEPT !.request_id = st.request_id + 1]
           s1 == SocketSend(s0, c, Forward(a.to, b.address, a.data))
       IN  [s1 EXCEPT !.calls = Settle(s1.calls, c, "resolved", Undefined)]

\* variant: forward swaps the to and from fields of the envelope
ForwardFn_Swapped(st, c, b) ==
  IF b = NoBinding
  THEN [st EXCEPT !.calls = Settle(st.calls, c, "rejected", TypeError)]
  ELSE LET a  == st.calls[c].args
           s1 == SocketSend(st, c, Forward(b.address, a.to, a.data))
       IN  [s1 EXCEPT !.calls = Settle(s1.calls, c, "resolved", Undefined)]

\* from = this.binding.address ; socket.send(forward)
ForwardFn(st, c, b) ==
  IF b = NoBinding
  THEN [st EXCEPT !.calls = Settle(st.calls, c, "rejected", TypeError)]
  ELSE LET a  == st.calls[c].args
           s1 == SocketSend(st, c, Forward(a.to, b.address, a.data))
       IN  [s1 EXCEPT !.calls = Settle(s1.calls, c, "resolved", Undefined)]

\* the continuation of call c, by the operation that created it
Func(st, c, b) ==
  CASE st.calls[c].op = "configuration" -> ConfigurationFn(st, c, b)
    [] st.calls[c].op = "address"       -> AddressFn(st, c, b)
    [] st.calls[c].op = "register"      -> RegisterFn(st, c, b)
    [] st.calls[c].op = "lookup"        -> LookupFn(st, c, b)
    [] st.calls[c].op = "forward"       -> ForwardFn(st, c, b)

\* -------------------------------------------------- Barrier (spec.md 4.1)
\* variant: resume() runs the most recently queued continuation first
RECURSIVE Drain_LIFO(_, _, _)
Drain_LIFO(st, q, b) ==
  IF q = Empty THEN st
  ELSE Drain_LIFO(Func(st, q[Len(q)], b), SubSeq(q, 1, Len(q) - 1), b)

\* resume(): drains the queued continuations in FIFO order; s1 is the state
\* the head continuation leaves, in which the rest of the queue runs
RECURSIVE Drain(_, _, _)
Drain(st, q, b) ==
  IF q = Empty THEN st
  ELSE CHOOSE r \in { Drain(s1, Tail(q), b) : s1 \in {Func(st, Head(q), b)} } :
         TRUE

\* a call as its caller sees it
NewCall(op, args) ==
  [op |-> op, args |-> args, status |-> "queued", request_id |-> NoId,
   value |-> Undefined, sends |-> 0]

\* the state a continuation leaves behind becomes the next state
SetHub(st) ==
  /\ request_id' = st.request_id
  /\ deferred' = st.deferred
  /\ socket' = st.socket
  /\ calls' = st.calls

\* run(action): executes at once when open, queues the continuation when closed
BarrierRun(op, args) ==
  LET c  == Len(calls) + 1
      st == [Hub EXCEPT !.calls = Append(calls, NewCall(op, args))]
      s2 == IF paused THEN st ELSE Func(st, c, binding)
  IN  /\ Len(calls) < MaxCalls
      /\ awaiters' = IF paused THEN Append(awaiters, c) ELSE awaiters
      /\ SetHub(s2)
      /\ last' = [event |-> "call"]
      /\ UNCHANGED << paused, binding, emitted >>

\* ------------------------------------------------------ public operations
configuration == BarrierRun("configuration", [none |-> TRUE])
address       == BarrierRun("address", [none |-> TRUE])
\* variant: register sends at once, without passing through the gate
register_Ungated ==
  \E h \in Hostnames :
    LET c  == Len(calls) + 1
        st == [Hub EXCEPT !.calls =
                 Append(calls, NewCall("register", [hostname |-> h]))]
        s2 == Func(st, c, binding)
    IN  /\ Len(calls) < MaxCalls
        /\ SetHub(s2)
        /\ last' = [event |-> "call"]
        /\ UNCHANGED << paused, awaiters, binding, emitted >>
register      == \E h \in Hostnames : BarrierRun("register", [hostname |-> h])
lookup        == \E h \in Hostnames : BarrierRun("lookup", [hostname |-> h])
forward       == BarrierRun("forward", [to |-> "peer-7", data |-> "hello"])

\* ------------------------------------------------------- inbound handlers
\* variant: the gate is resumed before the binding is stored
onBinding_ResumeFirst(message) ==
  /\ binding' = message
  /\ paused' = FALSE
  /\ awaiters' = Empty
  /\ SetHub(Drain(Hub, awaiters, binding))
  /\ UNCHANGED << emitted >>

\* this.binding = message ; this.barrier.resume()
onBinding(message) ==
  /\ binding' = message
  /\ paused' = FALSE
  /\ awaiters' = Empty
  /\ SetHub(Drain(Hub, awaiters, message))
  /\ UNCHANGED << emitted >>

\* variant: the 'forward' event carries only the data of the envelope
onForward_DataOnly(message) ==
  /\ Len(emitted) < MaxEmitted
  /\ emitted' = Append(emitted, [event |-> "forward",
                                 data |-> [data |-> message.data]])
  /\ UNCHANGED << paused, awaiters, deferred, binding, request_id, socket,
                  calls >>

\* super.emit('forward', message)
onForward(message) ==
  /\ Len(emitted) < MaxEmitted
  /\ emitted' = Append(emitted, [event |-> "forward", data |-> message])
  /\ UNCHANGED << paused, awaiters, deferred, binding, request_id, socket,
                  calls >>

\* variant: register-ok completes the oldest pending request, whatever its id
onRegisterOk_Oldest(message) ==
  /\ SetHub(IF deferred = {} THEN Hub
            ELSE DeferredResolve(Hub,
                   (CHOOSE e \in deferred :
                      \A f \in deferred : e.key <= f.key).key,
                   Obj(message)))
  /\ UNCHANGED << paused, awaiters, binding, emitted >>

\* this.deferred.resolve(message.request_id, message)
onRegisterOk(message) ==
  /\ SetHub(DeferredResolve(Hub, message.request_id, Obj(message)))
  /\ UNCHANGED << paused, awaiters, binding, emitted >>

\* variant: register-fail is received and ignored
onRegisterFail_Ignored(message) ==
  UNCHANGED << paused, awaiters, deferred, binding, request_id, socket,
               calls, emitted >>

\* this.deferred.reject(message.request_id, message.reason)
onRegisterFail(message) ==
  /\ SetHub(DeferredReject(Hub, message.request_id, Str(message.reason)))
  /\ UNCHANGED << paused, awaiters, binding, emitted >>

\* variant: lookup-ok completes only a call that is itself a lookup
onLookupOk_ChecksKind(message) ==
  /\ SetHub(IF /\ Has(deferred, message.request_id)
               /\ calls[AwaiterOf(deferred, message.request_id)].op = "lookup"
            THEN DeferredResolve(Hub, message.request_id, Obj(message))
            ELSE Hub)
  /\ UNCHANGED << paused, awaiters, binding, emitted >>

\* variant: lookup-ok completes the newest pending request, whatever its id
onLookupOk_Newest(message) ==
  /\ SetHub(IF deferred = {} THEN Hub
            ELSE DeferredResolve(Hub,
                   (CHOOSE e \in deferred :
                      \A f \in deferred : e.key >= f.key).key,
                   Obj(message)))
  /\ UNCHANGED << paused, awaiters, binding, emitted >>

\* this.deferred.resolve(message.request_id, message)
onLookupOk(message) ==
  /\ SetHub(DeferredResolve(Hub, message.request_id, Obj(message)))
  /\ UNCHANGED << paused, awaiters, binding, emitted >>

\* variant: lookup-fail rejects with the whole message instead of its reason
onLookupFail_WholeMessage(message) ==
  /\ SetHub(DeferredReject(Hub, message.request_id, Obj(message)))
  /\ UNCHANGED << paused, awaiters, binding, emitted >>

\* this.deferred.reject(message.request_id, message.reason)
onLookupFail(message) ==
  /\ SetHub(DeferredReject(Hub, message.request_id, Str(message.reason)))
  /\ UNCHANGED << paused, awaiters, binding, emitted >>

\* JSON.parse(event.data) throws on an undecodable frame: the exception
\* leaves the listener, no handler runs and nothing is emitted
ParseThrows ==
  /\ UNCHANGED << paused, awaiters, deferred, binding, request_id, socket,
                  calls, emitted >>

\* variant: the switch has a default case that emits an 'error' event
onMessage_DefaultEmits(data) ==
  /\ last' = IF data.type = "binding"
             THEN [event |-> "message", type |-> data.type,
                   resumed |-> Len(awaiters)]
             ELSE [event |-> "message", type |-> data.type]
  /\ CASE data = Malformed             -> ParseThrows
       [] data.type = "binding"        -> onBinding(data)
       [] data.type = "forward"        -> onForward(data)
       [] data.type = "register-ok"    -> onRegisterOk(data)
       [] data.type = "register-fail"  -> onRegisterFail(data)
       [] data.type = "lookup-ok"      -> onLookupOk(data)
       [] data.type = "lookup-fail"    -> onLookupFail(data)
       [] OTHER ->
            /\ Len(emitted) < MaxEmitted
            /\ emitted' = Append(emitted, [event |-> "error",
                                           data |-> [type |-> "Event"]])
            /\ UNCHANGED << paused, awaiters, deferred, binding, request_id,
                            socket, calls >>

\* the switch of onMessage; a type without a case falls through
onMessage(data) ==
  /\ last' = IF data.type = "binding"
             THEN [event |-> "message", type |-> data.type,
                   resumed |-> Len(awaiters)]
             ELSE [event |-> "message", type |-> data.type]
  /\ CASE data = Malformed             -> ParseThrows
       [] data.type = "binding"        -> onBinding(data)
       [] data.type = "forward"        -> onForward(data)
       [] data.type = "register-ok"    -> onRegisterOk(data)
       [] data.type = "register-fail"  -> onRegisterFail(data)
       [] data.type = "lookup-ok"      -> onLookupOk(data)
       [] data.type = "lookup-fail"    -> onLookupFail(data)
       [] OTHER -> UNCHANGED << paused, awaiters, deferred, binding,
                                request_id, socket, calls, emitted >>

\* variant: a close leaves the gate as it is
onClose_NoPause ==
  /\ last' = [event |-> "close"]
  /\ UNCHANGED << paused, awaiters, deferred, binding, request_id, socket,
                  calls, emitted >>

\* variant: a close fails every pending request
onClose_RejectsPending ==
  /\ paused' = TRUE
  /\ deferred' = {}
  /\ calls' = [c \in DOMAIN calls |->
                IF calls[c].status = "waiting"
                THEN [calls[c] EXCEPT !.status = "rejected",
                                      !.value = Str("closed")]
                ELSE calls[c]]
  /\ last' = [event |-> "close"]
  /\ UNCHANGED << awaiters, binding, request_id, socket, emitted >>

\* variant: a close also restarts the identifier counter
onClose_ResetsCounter ==
  /\ paused' = TRUE
  /\ request_id' = 0
  /\ last' = [event |-> "close"]
  /\ UNCHANGED << awaiters, deferred, binding, socket, calls, emitted >>

\* this.barrier.pause()
onClose ==
  /\ paused' = TRUE
  /\ last' = [event |-> "close"]
  /\ UNCHANGED << awaiters, deferred, binding, request_id, socket, calls,
                  emitted >>

\* variant: a transport error fails every pending request
onError_RejectsPending ==
  /\ Len(emitted) < MaxEmitted
  /\ emitted' = Append(emitted, [event |-> "error", data |-> [type |-> "Event"]])
  /\ deferred' = {}
  /\ calls' = [c \in DOMAIN calls |->
                IF calls[c].status = "waiting"
                THEN [calls[c] EXCEPT !.status = "rejected",
                                      !.value = Str("error")]
                ELSE calls[c]]
  /\ last' = [event |-> "error"]
  /\ UNCHANGED << paused, awaiters, binding, request_id, socket >>

\* variant: a transport error also closes the gate
onError_Pauses ==
  /\ Len(emitted) < MaxEmitted
  /\ emitted' = Append(emitted, [event |-> "error", data |-> [type |-> "Event"]])
  /\ paused' = TRUE
  /\ last' = [event |-> "error"]
  /\ UNCHANGED << awaiters, deferred, binding, request_id, socket, calls >>

\* super.emit('error', error)
onError ==
  /\ Len(emitted) < MaxEmitted
  /\ emitted' = Append(emitted, [event |-> "error", data |-> [type |-> "Event"]])
  /\ last' = [event |-> "error"]
  /\ UNCHANGED << paused, awaiters, deferred, binding, request_id, socket,
                  calls >>

\* ---------------------------------------------------------- specification
\* the state the constructor leaves: gate closed, nothing pending, id 0
Init ==
  /\ paused = TRUE
  /\ awaiters = Empty
  /\ deferred = {}
  /\ binding = NoBinding
  /\ request_id = 0
  /\ socket = Empty
  /\ calls = Empty
  /\ emitted = Empty
  /\ last = [event |-> "constructor"]

Message == \E data \in Inbound : onMessage(data)

Next ==
  \/ configuration
  \/ address
  \/ register
  \/ lookup
  \/ forward
  \/ Message
  \/ onClose
  \/ onError

Spec == Init /\ [][Next]_vars

\* --------------------------------------------------- fair message delivery
\* a handshake message is processed while calls wait behind the gate
GateOpens == awaiters # Empty /\ \E a \in Addresses : onMessage(Binding(a))

\* a response carrying the pending identifier k is processed
ResponseDelivered(k) ==
  \E m \in Responses :
    m.request_id = k /\ Has(deferred, k) /\ onMessage(m)

\* the listener runs once per frame, in arrival order: a handshake that the
\* hub sends and a response that the hub sends are eventually processed
LiveMessage == \E data \in { Binding(a) : a \in Addresses } \cup Responses :
                 onMessage(data)

\* the events a request's progress depends on: calls that pass the gate,
\* handshakes, responses and the loss of the connection
LiveNext ==
  \/ register
  \/ lookup
  \/ forward
  \/ LiveMessage
  \/ onClose

LiveSpec ==
  /\ Init /\ [][LiveNext]_vars
  /\ WF_vars(GateOpens)
  /\ \A k \in RequestIds : WF_vars(ResponseDelivered(k))

\* ================================================================ properties
Queued(c)   == calls[c].status = "queued"
Waiting(c)  == calls[c].status = "waiting"
Settled(c)  == calls[c].status \in {"resolved", "rejected"}
SendsOf(op) == IF op \in {"register", "lookup", "forward"} THEN 1 ELSE 0
HandshakeStep == last'.event = "message" /\ last'.type = "binding"
CloseStep     == last'.event = "close"
NewCalls      == DOMAIN calls' \ DOMAIN calls
RequestFrames == SelectSeq(socket, LAMBDA f : f.type \in {"register", "lookup"})
ForwardFrames == SelectSeq(socket, LAMBDA f : f.type = "forward")
IsRequest(c) == calls[c].op \in {"register", "lookup"}
Outcome(m) ==
  IF m.type \in {"register-ok", "lookup-ok"}
  THEN [status |-> "resolved", value |-> Obj(m)]
  ELSE [status |-> "rejected", value |-> Str(m.reason)]
ConnectionState ==
  IF ~paused THEN "Ready"
  ELSE IF binding = NoBinding THEN "Awaiting-Handshake" ELSE "Paused"
KindOf(m) == IF m.type \in {"register-ok", "register-fail"}
             THEN "register" ELSE "lookup"
ClientState   == << paused, awaiters, deferred, binding, request_id, socket,
                    calls, emitted >>

\* C1 (as stated): every call queued behind the closed gate sends exactly one
\* frame when the handshake releases it.
C1_EveryGatedCallSendsOnce ==
  [][ HandshakeStep =>
        \A c \in DOMAIN calls : Queued(c) => calls'[c].sends = 1 ]_vars

\* C1 (amended): while the gate is closed nothing is sent and a queued call
\* stays queued until a handshake message is processed; the handshake runs
\* every queued call, register/lookup/forward sending exactly one frame each
\* and address/configuration sending none; no call ever sends twice.
C1_GateWithholdsSends ==
  [][ /\ ~HandshakeStep =>
           /\ \A c \in DOMAIN calls : Queued(c) => calls'[c] = calls[c]
           /\ paused => socket' = socket
           /\ paused => \A c \in NewCalls :
                           calls'[c].status = "queued" /\ calls'[c].sends = 0
      /\ HandshakeStep =>
           /\ \A c \in DOMAIN calls : Queued(c) =>
                 /\ calls'[c].status # "queued"
                 /\ calls'[c].sends = SendsOf(calls[c].op)
           /\ Len(socket') = Len(socket)
                 + Cardinality({ c \in DOMAIN calls :
                                   Queued(c) /\ SendsOf(calls[c].op) = 1 })
      /\ \A c \in DOMAIN calls :
           /\ calls[c].sends <= calls'[c].sends
           /\ calls'[c].sends <= SendsOf(calls[c].op)
           /\ ~Queued(c) => calls'[c].sends = calls[c].sends ]_vars

\* a handshake has just released two queued calls, one that sends and one
\* accessor that does not
C1_Witness ==
  /\ last.event = "message" /\ last.type = "binding" /\ last.resumed = 2
  /\ \E c, d \in DOMAIN calls :
       /\ calls[c].op = "address" /\ calls[c].status = "resolved"
       /\ calls[c].sends = 0
       /\ calls[d].op = "register" /\ calls[d].sends = 1

\* C2: the identifiers handed out by register and lookup are 0, 1, 2, ... in
\* the order of the requests sent, from one counter shared by both
\* operations; no identifier is handed out twice, whatever closes and
\* handshakes happen in between.
C2_IdentifiersIncreaseFromZero ==
  /\ \A i \in 1 .. Len(RequestFrames) : RequestFrames[i].request_id = i - 1
  /\ request_id = Len(RequestFrames)
  /\ \A c \in DOMAIN calls :
       /\ calls[c].op \in {"register", "lookup"} /\ ~Queued(c)
            => calls[c].request_id \in 0 .. (request_id - 1)
       /\ calls[c].op \notin {"register", "lookup"} \/ Queued(c)
            => calls[c].request_id = NoId
  /\ \A c, d \in DOMAIN calls :
       c # d /\ calls[c].request_id # NoId
         => calls[c].request_id # calls[d].request_id

\* a register got identifier 0, the connection was lost, and a lookup queued
\* behind the closed gate got identifier 1 from the next handshake
C2_Witness ==
  /\ last.event = "message" /\ last.type = "binding" /\ last.resumed = 1
  /\ Len(calls) = 2
  /\ calls[1].op = "register" /\ calls[1].request_id = 0
  /\ calls[2].op = "lookup" /\ calls[2].request_id = 1
  /\ request_id = 2

\* C3: processing register-ok{request_id = k} resolves, with the message,
\* the call waiting on identifier k and leaves every other call as it was.
C3_RegisterOkResolvesOnlyItsCall ==
  [][ \A m \in Responses : m.type = "register-ok" /\ onMessage(m) =>
        \A c \in DOMAIN calls :
          IF Waiting(c) /\ calls[c].request_id = m.request_id
          THEN calls'[c] = [calls[c] EXCEPT !.status = "resolved",
                                            !.value = Obj(m)]
          ELSE calls'[c] = calls[c] ]_vars

\* register-ok{1} has resolved the second call while the first still waits
C3_Witness ==
  /\ last.event = "message" /\ last.type = "register-ok"
  /\ Len(calls) = 2
  /\ calls[1].status = "waiting" /\ calls[1].request_id = 0
  /\ calls[2].status = "resolved" /\ calls[2].value = Obj(RegisterOk(1, 5))

\* C4: processing register-fail or lookup-fail with request_id = k rejects,
\* with the reason string of the message, the call waiting on identifier k;
\* no other call changes and nothing is sent.
C4_FailRejectsOnlyItsCall ==
  [][ \A m \in Responses :
        m.type \in {"register-fail", "lookup-fail"} /\ onMessage(m) =>
          /\ \A c \in DOMAIN calls :
               IF Waiting(c) /\ calls[c].request_id = m.request_id
               THEN calls'[c] = [calls[c] EXCEPT !.status = "rejected",
                                                 !.value = Str(m.reason)]
               ELSE calls'[c] = calls[c]
          /\ socket' = socket
          /\ request_id' = request_id ]_vars

\* lookup-fail{0} has failed the first call with "not-found" while the
\* second call still waits
C4_Witness ==
  /\ last.event = "message" /\ last.type = "lookup-fail"
  /\ Len(calls) = 2
  /\ calls[1].op = "lookup" /\ calls[1].status = "rejected"
  /\ calls[1].value = Str("not-found") /\ calls[1].request_id = 0
  /\ calls[2].status = "waiting"
  /\ Len(socket) = 2

\* C5: a settled call never changes again and has no slot left in the
\* table; the slots are exactly the waiting calls under their identifiers;
\* a response whose identifier has no slot (never allocated, or already
\* completed) changes nothing.
C5_CompletedAtMostOnce ==
  [][ /\ \A c \in DOMAIN calls : Settled(c) => calls'[c] = calls[c]
      /\ deferred' = { [key |-> calls'[c].request_id, awaiter |-> c] :
                         c \in { d \in DOMAIN calls' :
                                   calls'[d].status = "waiting" } }
      /\ \A m \in Responses :
           onMessage(m) /\ ~Has(deferred, m.request_id)
             => UNCHANGED ClientState ]_vars

\* the only identifier ever allocated was failed by a lookup-fail; a
\* lookup-ok processed afterwards found no slot and the call is still failed
C5_Witness ==
  /\ last.event = "message" /\ last.type = "lookup-ok"
  /\ request_id = 1
  /\ deferred = {}
  /\ \E c \in DOMAIN calls :
       /\ calls[c].request_id = 0
       /\ calls[c].status = "rejected" /\ calls[c].value = Str("not-found")

\* C6: a close notification closes the gate; from then until a handshake
\* message is processed the gate stays closed, nothing is sent, every call
\* made is queued and no queued call runs or completes.
C6_CloseClosesGate ==
  [][ /\ CloseStep => paused'
      /\ paused /\ ~HandshakeStep =>
           /\ paused'
           /\ socket' = socket
           /\ request_id' = request_id
           /\ \A c \in NewCalls : calls'[c] = NewCall(calls'[c].op, calls'[c].args)
           /\ \A c \in DOMAIN calls : Queued(c) => calls'[c] = calls[c]
      /\ paused /\ HandshakeStep =>
           ~paused' /\ \A c \in DOMAIN calls' : calls'[c].status # "queued" ]_vars

\* a handshake had been processed, the connection was lost, and a call made
\* afterwards sits in the queue with nothing sent
C6_Witness ==
  /\ last.event = "call"
  /\ paused /\ binding # NoBinding
  /\ Len(calls) = 1 /\ calls[1].status = "queued" /\ awaiters = << 1 >>
  /\ socket = Empty

\* C7: a close notification leaves the pending entries of the table, the
\* callers' results and the identifier counter exactly as they were.
C7_CloseKeepsPending ==
  [][ CloseStep =>
        /\ deferred' = deferred
        /\ calls' = calls
        /\ request_id' = request_id ]_vars

\* the connection was just lost with two requests pending
C7_Witness ==
  /\ last.event = "close"
  /\ paused
  /\ Cardinality(deferred) = 2
  /\ request_id = 2

\* C8: a message whose type has no case in the switch changes nothing: the
\* table, the callers, the gate, its queue, the binding and the counter
\* stay, nothing is sent and no event is emitted.
C8_UnrecognizedDropped ==
  [][ \A m \in Unrecognized : onMessage(m) => UNCHANGED ClientState ]_vars

\* a "ping" was processed with one request pending and one call queued
C8_Witness ==
  /\ last.event = "message" /\ last.type = "ping"
  /\ Cardinality(deferred) = 1
  /\ Len(awaiters) = 1

\* C9 (as stated): an undecodable frame is surfaced as an 'error' event and
\* leaves the rest of the client as it was.
C9_MalformedRaisesDiagnostic ==
  [][ onMessage(Malformed) =>
        /\ Len(emitted') = Len(emitted) + 1
        /\ emitted'[Len(emitted')].event = "error"
        /\ UNCHANGED << paused, awaiters, deferred, binding, request_id,
                        socket, calls >> ]_vars

\* C10 (as stated): any two forward frames sent by one client carry the same
\* from value.
C10_AllForwardsSameFrom ==
  \A i, j \in 1 .. Len(ForwardFrames) :
    ForwardFrames[i].from = ForwardFrames[j].from

\* C10 (amended): every forward frame sent carries, as from, the address of
\* the binding in force when it is sent, which is the address of the most
\* recently processed handshake; the binding changes only when a handshake
\* is processed and a frame once sent is never altered, so forwards sent
\* with no handshake of another address in between agree on from.
C10_ForwardFromIsCurrentBinding ==
  [][ /\ \A i \in (Len(socket) + 1) .. Len(socket') :
           socket'[i].type = "forward" =>
             /\ binding' # NoBinding
             /\ socket'[i].from = binding'.address
             /\ HandshakeStep \/ socket'[i].from = binding.address
      /\ ~HandshakeStep => binding' = binding
      /\ \A i \in 1 .. Len(socket) : socket'[i] = socket[i] ]_vars

\* two forwards were sent under two handshakes carrying different addresses
C10_Witness ==
  /\ Len(ForwardFrames) = 2
  /\ ForwardFrames[1].from = "peer-42"
  /\ ForwardFrames[2].from = "peer-7"
  /\ binding = Binding("peer-7")

\* C11: whatever the order in which responses arrive, a response is given to
\* the call waiting on its own identifier and to no other: each step that
\* processes a response settles exactly that call with the message (success)
\* or its reason (failure), and so every settled register or lookup holds
\* the payload of a response that carried its own identifier.
C11_ResponsesReachOwnCaller ==
  [][ /\ \A m \in Responses : onMessage(m) =>
           \A c \in DOMAIN calls :
             IF Waiting(c) /\ calls[c].request_id = m.request_id
             THEN calls'[c] = [calls[c] EXCEPT !.status = Outcome(m).status,
                                               !.value = Outcome(m).value]
             ELSE calls'[c] = calls[c]
      /\ \A c \in DOMAIN calls' :
           calls'[c].op \in {"register", "lookup"} =>
             /\ calls'[c].status = "resolved" =>
                  /\ calls'[c].value.kind = "object"
                  /\ calls'[c].value.object.request_id = calls'[c].request_id
             /\ calls'[c].status = "rejected" =>
                  calls'[c].value \in { Str(r) : r \in Reasons } ]_vars

\* two requests are in flight and the response to the second (identifier 1)
\* has arrived first: the lookup holds its own payload, the register waits
C11_Witness ==
  /\ last.event = "message" /\ last.type = "lookup-ok"
  /\ Len(calls) = 2
  /\ calls[1].op = "register" /\ calls[1].request_id = 0
  /\ calls[1].status = "waiting"
  /\ calls[2].op = "lookup" /\ calls[2].request_id = 1
  /\ calls[2].status = "resolved" /\ calls[2].value = Obj(LookupOk(1, 5))

\* C12: the gate's queue holds the queued calls in the order they were made;
\* the handshake runs them in that order: the frames it sends are those of
\* the queued register, lookup and forward calls, in call order, and the
\* identifiers given to the queued register and lookup calls increase in
\* call order.
C12_QueueDrainsInArrivalOrder ==
  [][ /\ \A i, j \in 1 .. Len(awaiters) : i < j => awaiters[i] < awaiters[j]
      /\ { awaiters[i] : i \in 1 .. Len(awaiters) }
           = { c \in DOMAIN calls : Queued(c) }
      /\ HandshakeStep =>
           LET senders == SelectSeq(awaiters,
                            LAMBDA c : SendsOf(calls[c].op) = 1)
           IN  /\ Len(socket') = Len(socket) + Len(senders)
               /\ \A i \in 1 .. Len(senders) :
                    LET c == senders[i]
                        f == socket'[Len(socket) + i]
                    IN  /\ f.type = calls[c].op
                        /\ IsRequest(c) =>
                             /\ f.request_id = calls'[c].request_id
                             /\ f.hostname = calls[c].args.hostname
               /\ \A i, j \in 1 .. Len(awaiters) :
                    i < j /\ IsRequest(awaiters[i]) /\ IsRequest(awaiters[j])
                      => calls'[awaiters[i]].request_id
                           < calls'[awaiters[j]].request_id ]_vars

\* a lookup and then a register were queued behind the closed gate; the
\* handshake sent the lookup first with identifier 0, then the register
C12_Witness ==
  /\ last.event = "message" /\ last.type = "binding" /\ last.resumed = 2
  /\ Len(calls) = 2
  /\ calls[1].op = "lookup" /\ calls[1].request_id = 0
  /\ calls[2].op = "register" /\ calls[2].request_id = 1
  /\ socket = << Lookup(0, "alice"), Register(1, "alice") >>

\* C13: the connection state starts as Awaiting-Handshake and changes only
\* along Awaiting-Handshake -> Ready and Paused -> Ready, both on a handshake
\* message, and Ready -> Paused on a transport close; a handshake always
\* leaves the client Ready and a close never leaves it Ready; responses,
\* forwards, other messages, transport errors and calls leave it as it is.
C13_ConnectionStateMachine ==
  /\ ConnectionState = "Awaiting-Handshake"
  /\ [][ /\ ConnectionState' # ConnectionState =>
              \/ /\ HandshakeStep
                 /\ ConnectionState \in {"Awaiting-Handshake", "Paused"}
                 /\ ConnectionState' = "Ready"
              \/ /\ CloseStep
                 /\ ConnectionState = "Ready"
                 /\ ConnectionState' = "Paused"
         /\ HandshakeStep => ConnectionState' = "Ready"
         /\ CloseStep => ConnectionState' =
              (IF ConnectionState = "Ready" THEN "Paused" ELSE ConnectionState)
         /\ ~HandshakeStep /\ ~CloseStep => paused' = paused ]_vars

\* the client went Awaiting-Handshake -> Ready -> Paused: the transport has
\* just closed after a handshake, with a request still pending
C13_Witness ==
  /\ last.event = "close"
  /\ ConnectionState = "Paused"
  /\ deferred # {}

\* C14: a transport error notification emits exactly one 'error' event and
\* changes nothing else: no pending entry is failed, no caller's result,
\* the gate, its queue, the binding, the counter and the socket stay.
C14_ErrorOnlyEmits ==
  [][ last'.event = "error" =>
        /\ Len(emitted') = Len(emitted) + 1
        /\ emitted'[Len(emitted')].event = "error"
        /\ \A i \in 1 .. Len(emitted) : emitted'[i] = emitted[i]
        /\ UNCHANGED << paused, awaiters, deferred, binding, request_id,
                        socket, calls >> ]_vars

\* a transport error was reported while a request was pending and the gate
\* was open: the event is out and the request still waits
C14_Witness ==
  /\ last.event = "error"
  /\ emitted = << [event |-> "error", data |-> [type |-> "Event"]] >>
  /\ ~paused
  /\ \E c \in DOMAIN calls : Waiting(c)
  /\ Cardinality(deferred) = 1

\* C15: an inbound forward message emits exactly one 'forward' event whose
\* payload is the whole envelope (to, from, data) and changes nothing else,
\* with the gate open or closed: no entry of the table is completed, and the
\* gate, its queue, the binding, the counter and the socket stay.
C15_InboundForwardOnlyEmits ==
  [][ \A m \in Inbound : m.type = "forward" /\ onMessage(m) =>
        /\ emitted' = Append(emitted, [event |-> "forward", data |-> m])
        /\ UNCHANGED << paused, awaiters, deferred, binding, request_id,
                        socket, calls >> ]_vars

\* a forward arrived while the gate was closed after a connection loss and a
\* request was pending: the envelope was emitted, the request still waits
C15_Witness ==
  /\ last.event = "message" /\ last.type = "forward"
  /\ emitted = << [event |-> "forward",
                   data |-> Forward("peer-42", "peer-7", "hello")] >>
  /\ paused
  /\ deferred # {}

\* C16 (as stated): a forward invoked before any binding exists fails at
\* once.
C16_ForwardBeforeBindingFails ==
  [][ \A c \in NewCalls :
        calls'[c].op = "forward" /\ binding = NoBinding
          => calls'[c].status = "rejected" ]_vars

\* C16 (amended): a forward invoked before any binding exists does not fail:
\* it is queued behind the closed gate, sends nothing, and is sent by the
\* first handshake with that handshake's address as from, so no envelope
\* ever leaves without a valid from and no call ever reads an unset binding;
\* a register or lookup never registers an identifier that already has a
\* slot: the keys of the table are distinct and no wait is ever refused.
C16_MisuseNeverCorruptsState ==
  [][ /\ \A c \in NewCalls :
           calls'[c].op = "forward" /\ binding = NoBinding =>
             /\ calls'[c] = NewCall("forward", calls'[c].args)
             /\ awaiters' = Append(awaiters, c)
             /\ socket' = socket
      /\ \A c \in DOMAIN calls :
           calls[c].op = "forward" /\ Queued(c) /\ HandshakeStep =>
             /\ calls'[c].status = "resolved" /\ calls'[c].sends = 1
             /\ \E i \in (Len(socket) + 1) .. Len(socket') :
                  socket'[i] = Forward(calls[c].args.to, binding'.address,
                                       calls[c].args.data)
      /\ \A i \in 1 .. Len(socket') :
           socket'[i].type = "forward" => socket'[i].from \in Addresses
      /\ \A c \in DOMAIN calls' :
           calls'[c].value # TypeError /\ calls'[c].value # KeyError
      /\ \A e, f \in deferred' : e.key = f.key => e = f ]_vars

\* a forward was invoked before any handshake: it sits in the queue, nothing
\* was sent and it has not failed
C16_Witness ==
  /\ last.event = "call"
  /\ binding = NoBinding
  /\ \E c \in DOMAIN calls :
       /\ calls[c].op = "forward" /\ calls[c].status = "queued"
       /\ calls[c].sends = 0
  /\ socket = Empty

\* C17: when handshakes and the responses to pending identifiers are
\* eventually processed, every register or lookup call is eventually
\* settled (returned or failed); and there is no other way out of waiting:
\* a waiting call changes only in a step that processes a response carrying
\* its identifier, and a queued call only in a step that processes a
\* handshake, so without them it stays pending for good.
C17_RequestsEventuallySettle ==
  /\ \A c \in 1 .. MaxCalls :
       (c \in DOMAIN calls /\ IsRequest(c)) ~> (c \in DOMAIN calls /\ Settled(c))
  /\ [][ \A c \in DOMAIN calls :
           /\ Waiting(c) /\ calls'[c] # calls[c] =>
                ResponseDelivered(calls[c].request_id)
           /\ Queued(c) /\ calls'[c] # calls[c] => GateOpens ]_vars

\* a register queued behind the gate has been released by a handshake,
\* answered by register-ok and has returned its payload
C17_Witness ==
  /\ last.event = "message" /\ last.type = "register-ok"
  /\ Len(calls) = 1
  /\ calls[1].op = "register" /\ calls[1].status = "resolved"
  /\ calls[1].value = Obj(RegisterOk(0, 5))
  /\ deferred = {} /\ awaiters = Empty

\* C18: whenever the gate is open a binding is set, and no call has ever
\* read an unset binding: every address, configuration and forward call that
\* has run was given a field of a binding, never a TypeError.
C18_OpenGateHasBinding ==
  /\ ~paused => binding # NoBinding
  /\ binding # NoBinding => binding \in { Binding(a) : a \in Addresses }
  /\ \A c \in DOMAIN calls :
       /\ calls[c].value # TypeError
       /\ calls[c].op = "address" /\ ~Queued(c) =>
            calls[c].status = "resolved"
            /\ calls[c].value \in { Str(a) : a \in Addresses }
       /\ calls[c].op = "configuration" /\ ~Queued(c) =>
            calls[c].status = "resolved" /\ calls[c].value = Str("rtc")
       /\ calls[c].op = "forward" /\ ~Queued(c) =>
            calls[c].status = "resolved" /\ calls[c].sends = 1

\* the first handshake has just opened the gate and released a queued
\* address call and a queued forward, both served from the new binding
C18_Witness ==
  /\ last.event = "message" /\ last.type = "binding" /\ last.resumed = 2
  /\ ~paused /\ binding = Binding("peer-42")
  /\ Len(calls) = 2
  /\ calls[1].op = "address" /\ calls[1].value = Str("peer-42")
  /\ calls[2].op = "forward" /\ calls[2].status = "resolved"
  /\ socket = << Forward("peer-7", "peer-42", "hello") >>

\* C19: in every state the identifiers with a slot in the table are exactly
\* those sent in a register or lookup frame and not yet answered (their call
\* is not settled), each slot belongs to the call that was given the
\* identifier, and every one of them is below the counter; a request that
\* has been sent has its slot in the same state (no event falls between the
\* send and the registration); the counter counts the register and lookup
\* calls that have run, so forward, address and configuration calls take no
\* identifier and own no slot.
C19_PendingAreSentUnanswered ==
  /\ { e.key : e \in deferred }
       = { RequestFrames[i].request_id : i \in 1 .. Len(RequestFrames) }
           \ { calls[c].request_id : c \in { d \in DOMAIN calls : Settled(d) } }
  /\ \A e \in deferred :
       /\ e.key < request_id
       /\ e.awaiter \in DOMAIN calls
       /\ IsRequest(e.awaiter) /\ Waiting(e.awaiter)
       /\ calls[e.awaiter].request_id = e.key
  /\ \A c \in DOMAIN calls :
       IsRequest(c) /\ calls[c].sends = 1 /\ ~Settled(c)
         => [key |-> calls[c].request_id, awaiter |-> c] \in deferred
  /\ request_id = Cardinality({ c \in DOMAIN calls : IsRequest(c) /\ ~Queued(c) })
  /\ \A c \in DOMAIN calls :
       ~IsRequest(c) =>
         /\ calls[c].request_id = NoId
         /\ calls[c].status # "waiting"
         /\ \A e \in deferred : e.awaiter # c

\* a forward has been sent and a register is pending: the forward took no
\* identifier, the register holds identifier 0 and the only slot
C19_Witness ==
  /\ Len(calls) = 2
  /\ calls[1].op = "forward" /\ calls[1].status = "resolved"
  /\ calls[2].op = "register" /\ calls[2].status = "waiting"
  /\ deferred = { [key |-> 0, awaiter |-> 2] }
  /\ request_id = 1
  /\ Len(socket) = 2

\* C20: a response completes the call waiting on its identifier whatever
\* the kind of that call: a lookup-ok or lookup-fail settles a waiting
\* register, a register-ok or register-fail settles a waiting lookup, with
\* the content of the message, and its slot leaves the table.
C20_CorrelationIgnoresKind ==
  [][ \A m \in Responses : onMessage(m) =>
        \A c \in DOMAIN calls :
          Waiting(c) /\ calls[c].request_id = m.request_id
            /\ calls[c].op # KindOf(m) =>
              /\ calls'[c].status = Outcome(m).status
              /\ calls'[c].value = Outcome(m).value
              /\ ~Has(deferred', m.request_id) ]_vars

\* a register with identifier 0 was resolved by a lookup-ok carrying 0, and
\* a lookup with identifier 1 was failed by a register-fail carrying 1
C20_Witness ==
  /\ last.event = "message" /\ last.type = "register-fail"
  /\ Len(calls) = 2
  /\ calls[1].op = "register" /\ calls[1].status = "resolved"
  /\ calls[1].value = Obj(LookupOk(0, 5))
  /\ calls[2].op = "lookup" /\ calls[2].request_id = 1
  /\ calls[2].status = "rejected" /\ calls[2].value = Str("not-found")

====
